---- MODULE Spec2Model ----
(***************************************************************************)
(* Model of the recorder's persistence mapping layer (src/models.py):      *)
(* the timestamp normalizer, the attribute filter, the Events and States   *)
(* record codecs and the RecorderRuns.entity_ids window query.             *)
(*                                                                         *)
(* Python values are tagged records [t |-> type, v |-> payload]; a dict is *)
(* a sequence of <<key, value>> pairs in insertion order with distinct     *)
(* keys; an optional value is <<>> (None) or <<x>>.  A call that may raise *)
(* yields [exc |-> name or "", ret |-> value].                             *)
(***************************************************************************)
EXTENDS Integers, Sequences, FiniteSets, TLC

VARIABLES
    \* timestamp normalizer calls
    ts_in, ts_cur, ts_prev, ts_calls,
    \* attribute filter calls
    fa_in, fa_arg, fa_cur, fa_prev, fa_calls,
    \* one native event being translated by the two codecs
    event, fired, calls, ev_row, st_row, ev_native, st_native,
    \* bulk read of stored rows
    ev_table, st_table, rd_kind, rd_pos, rd_out, rd_raised,
    \* recorder run and its window query
    states_tbl, run, run_session, q_pit, q_out, q_exc, q_done

ts_vars == <<ts_in, ts_cur, ts_prev, ts_calls>>
fa_vars == <<fa_in, fa_arg, fa_cur, fa_prev, fa_calls>>
codec_vars == <<event, fired, calls, ev_row, st_row, ev_native, st_native>>
read_vars == <<ev_table, st_table, rd_kind, rd_pos, rd_out, rd_raised>>
run_vars == <<states_tbl, run, run_session, q_pit, q_out, q_exc, q_done>>
vars == <<ts_vars, fa_vars, codec_vars, read_vars, run_vars>>

-----------------------------------------------------------------------------
(* Bounds *)

MaxWall == 11
MaxTsCalls == 2
MaxAttrs == 3
MaxFilterCalls == 2
MaxRows == 3
MaxStates == 2
MaxTime == 3

-----------------------------------------------------------------------------
(* Optional values and dicts *)

None == <<>>
Some(x) == <<x>>

Keys(d) == {d[i][1] : i \in DOMAIN d}
DictHas(d, k) == \E i \in DOMAIN d : d[i][1] = k
DictGet(d, k) == d[CHOOSE i \in DOMAIN d : d[i][1] = k][2]
DictSet(d, k, val) ==
    IF DictHas(d, k)
    THEN [i \in DOMAIN d |-> IF d[i][1] = k THEN <<k, val>> ELSE d[i]]
    ELSE Append(d, <<k, val>>)
\* Python's == on dicts: same keys with equal values, whatever the order
DictEq(a, b) == {a[i] : i \in DOMAIN a} = {b[i] : i \in DOMAIN b}

InSeq(x, s) == \E i \in DOMAIN s : s[i] = x

-----------------------------------------------------------------------------
(* Timestamps: a datetime is its wall-clock reading (in hours), whether it *)
(* carries a tzinfo, and that tzinfo's UTC offset.                         *)

Datetime(wall, aware, off) == [wall |-> wall, aware |-> aware, off |-> off]
Offsets == {-2, 0, 1}
Datetimes ==
    {Datetime(w, FALSE, 0) : w \in 0..MaxWall}
        \cup {Datetime(w, TRUE, o) : w \in 0..MaxWall, o \in Offsets}

UTC_localize(dt) == Datetime(dt.wall, TRUE, 0)
as_utc(dt) ==
    IF dt.aware /\ dt.off = 0 THEN dt
    ELSE IF ~dt.aware THEN Datetime(dt.wall, TRUE, 0)
    ELSE Datetime(dt.wall - dt.off, TRUE, 0)

_process_timestamp_keeps_naive(ts) ==
    IF ts = None THEN None
    ELSE IF ~ts[1].aware THEN ts
    ELSE Some(as_utc(ts[1]))
_process_timestamp(ts) ==
    IF ts = None THEN None
    ELSE IF ~ts[1].aware THEN Some(UTC_localize(ts[1]))
    ELSE Some(as_utc(ts[1]))

\* datetime.__eq__: aware values compare by instant, naive ones by reading,
\* and a naive value never equals an aware one
DtEq(a, b) ==
    IF a.aware /\ b.aware THEN a.wall - a.off = b.wall - b.off
    ELSE IF ~a.aware /\ ~b.aware THEN a.wall = b.wall
    ELSE FALSE
Isoformat(dt) ==
    ToString(dt.wall) \o ":00" \o
        (IF dt.aware THEN (IF dt.off < 0 THEN "-" \o ToString(-dt.off)
                                          ELSE "+" \o ToString(dt.off)) \o ":00"
         ELSE "")

TsIdle == ts_in = None /\ ts_cur = None /\ ts_prev = None /\ ts_calls = 0
TsInit ==
    /\ ts_in \in {None} \cup {Some(d) : d \in Datetimes}
    /\ ts_cur = ts_in
    /\ ts_prev = None
    /\ ts_calls = 0
ProcessTimestamp ==
    /\ ts_calls < MaxTsCalls
    /\ ts_prev' = ts_cur
    /\ ts_cur' = _process_timestamp(ts_cur)
    /\ ts_calls' = ts_calls + 1
    /\ UNCHANGED <<ts_in, fa_vars, codec_vars, read_vars, run_vars>>

-----------------------------------------------------------------------------
(* Attribute filter *)

ATTR_ENTITY_ID == "entity_id"
ATTR_AREA_ID == "area_id"
ATTR_ENTITY_PICTURE == "entity_picture"
ATTR_FRIENDLY_NAME == "friendly_name"
ATTR_HIDDEN == "hidden"
ATTR_ICON == "icon"
ATTR_DEVICE_CLASS == "device_class"
ATTR_EDITABLE == "editable"
EVENT_STATE_CHANGED == "state_changed"

KEYS_TO_FILTER_with_friendly_name ==
    <<ATTR_ENTITY_ID, ATTR_AREA_ID, ATTR_ENTITY_PICTURE, ATTR_FRIENDLY_NAME,
      ATTR_HIDDEN, ATTR_ICON, ATTR_DEVICE_CLASS, ATTR_EDITABLE>>
KEYS_TO_FILTER_FROM_DB ==
    <<ATTR_ENTITY_ID, ATTR_AREA_ID, ATTR_ENTITY_PICTURE, ATTR_HIDDEN, ATTR_ICON,
      ATTR_DEVICE_CLASS, ATTR_EDITABLE>>

_filter_attributes_keeps_all(unfiltered_dict) == unfiltered_dict
\* the dict returned: a new one, built from the items whose key is not listed
_filter_attributes(unfiltered_dict) ==
    SelectSeq(unfiltered_dict, LAMBDA item : ~InSeq(item[1], KEYS_TO_FILTER_FROM_DB))
\* the caller's dict after the call: the comprehension only reads it
_filter_attributes_arg(unfiltered_dict) == unfiltered_dict

\* attribute values as Python objects
PyStr(s) == [t |-> "str", v |-> s]
PyInt(n) == [t |-> "int", v |-> n]
PyTuple(xs) == [t |-> "tuple", v |-> xs]
PyList(xs) == [t |-> "list", v |-> xs]
PyDatetime(dt) == [t |-> "datetime", v |-> dt]
PyDict(d) == [t |-> "dict", v |-> d]
PyNone == [t |-> "NoneType", v |-> ""]

AttrKeys ==
    {ATTR_ENTITY_ID, ATTR_AREA_ID, ATTR_ENTITY_PICTURE, ATTR_HIDDEN, ATTR_ICON,
     ATTR_DEVICE_CLASS, ATTR_EDITABLE, ATTR_FRIENDLY_NAME, "unit_of_measurement",
     "brightness"}
AttrVals == {PyStr("x"), PyInt(1)}
AttrMaps ==
    UNION {{m \in [1..n -> AttrKeys \X AttrVals] :
                \A i, j \in 1..n : m[i][1] = m[j][1] => i = j} : n \in 0..MaxAttrs}

\* fa_arg is the mapping the caller holds and fa_in what it held at first;
\* the first call filters fa_arg, each later one the result before it
FaIdle ==
    /\ fa_in = <<>> /\ fa_arg = <<>> /\ fa_cur = <<>> /\ fa_prev = <<>>
    /\ fa_calls = 0
FaInit ==
    /\ fa_in \in AttrMaps
    /\ fa_arg = fa_in
    /\ fa_cur = fa_in
    /\ fa_prev = <<>>
    /\ fa_calls = 0
FilterAttributes ==
    /\ fa_calls < MaxFilterCalls
    /\ LET passed == IF fa_calls = 0 THEN fa_arg ELSE fa_cur
       IN  /\ fa_cur' = _filter_attributes(passed)
           /\ fa_prev' = _filter_attributes_arg(passed)
           /\ fa_arg' = IF fa_calls = 0 THEN _filter_attributes_arg(passed) ELSE fa_arg
    /\ fa_calls' = fa_calls + 1
    /\ UNCHANGED <<fa_in, ts_vars, codec_vars, read_vars, run_vars>>

-----------------------------------------------------------------------------
(* JSON: json.dumps(..., cls=JSONEncoder) and json.loads.  A Text column   *)
(* holds either a well-formed document or text that does not parse.        *)

\* entity_id.split(".", 1): the parts before and after the first separator
NameParts == {"light", "sensor", "Light"}
Remainders == {"kitchen", "a.b", "Kitchen"}
split_entity_id(entity_id) ==
    IF \E p \in NameParts \X Remainders : p[1] \o "." \o p[2] = entity_id
    THEN CHOOSE p \in NameParts \X Remainders : p[1] \o "." \o p[2] = entity_id
    ELSE <<entity_id>>
\* str.lower
Lower(s) == IF s = "Light.Kitchen" THEN "light.kitchen" ELSE s

PyState(S) == [t |-> "State", v |-> S]
StateDomain(S) == split_entity_id(S.entity_id)[1]
Context_as_dict(c) == <<<<"id", c.id>>, <<"user_id", c.user_id>>>>
State_as_dict(S) ==
    << <<"entity_id", PyStr(S.entity_id)>>,
       <<"state", PyStr(S.state)>>,
       <<"attributes", PyDict(S.attributes)>>,
       <<"last_changed", PyDatetime(S.last_changed)>>,
       <<"last_updated", PyDatetime(S.last_updated)>>,
       <<"context", PyDict(Context_as_dict(S.context))>> >>

RECURSIVE ToJson(_)
ToJson(o) ==
    CASE o.t = "str" -> [t |-> "string", v |-> o.v]
      [] o.t = "int" -> [t |-> "number", v |-> o.v]
      [] o.t = "NoneType" -> [t |-> "null", v |-> ""]
      [] o.t \in {"tuple", "list"} ->
            [t |-> "array", v |-> [i \in DOMAIN o.v |-> ToJson(o.v[i])]]
      [] o.t = "dict" ->
            [t |-> "object",
             v |-> [i \in DOMAIN o.v |-> <<o.v[i][1], ToJson(o.v[i][2])>>]]
      \* JSONEncoder.default
      [] o.t = "datetime" -> [t |-> "string", v |-> Isoformat(o.v)]
      [] o.t = "State" -> ToJson(PyDict(State_as_dict(o.v)))
RECURSIVE FromJson(_)
FromJson(j) ==
    CASE j.t = "string" -> PyStr(j.v)
      [] j.t = "number" -> PyInt(j.v)
      [] j.t = "null" -> PyNone
      [] j.t = "array" -> PyList([i \in DOMAIN j.v |-> FromJson(j.v[i])])
      [] j.t = "object" ->
            PyDict([i \in DOMAIN j.v |-> <<j.v[i][1], FromJson(j.v[i][2])>>])

Text(doc) == [wf |-> TRUE, doc |-> doc]
Malformed == [wf |-> FALSE, doc |-> [t |-> "string", v |-> "{invalid"]]
EmptyObjectText == Text([t |-> "object", v |-> <<>>])
json_dumps(o) == Text(ToJson(o))
json_loads(text) ==
    IF text.wf THEN [exc |-> "", ret |-> FromJson(text.doc)]
    ELSE [exc |-> "ValueError", ret |-> PyNone]

\* EventOrigin: local = "LOCAL", remote = "REMOTE"; str(origin) is the value
EventOriginValues == {"LOCAL", "REMOTE"}
EventOrigin(s) ==
    IF s \in EventOriginValues THEN [exc |-> "", ret |-> s]
    ELSE [exc |-> "ValueError", ret |-> s]

-----------------------------------------------------------------------------
(* Events codec *)

_filter_state_change_event_data_in_place(unfiltered_dict) ==
    LET Step(f, key) ==
            IF DictHas(f, key) /\ DictGet(f, key).t = "State"
            THEN LET d == State_as_dict(DictGet(f, key).v)
                 IN  DictSet(f, key,
                        PyDict(DictSet(d, "attributes",
                            PyDict(_filter_attributes(DictGet(d, "attributes").v)))))
            ELSE f
        r == Step(Step(unfiltered_dict, "old_state"), "new_state")
    IN  [arg |-> r, ret |-> r]
\* arg is the caller's dict after the call, ret the returned dict: the loop
\* writes only to the copy and to the dicts as_dict() builds
_filter_state_change_event_data(unfiltered_dict) ==
    LET Step(f, key) ==
            IF DictHas(f, key) /\ DictGet(f, key).t = "State"
            THEN LET d == State_as_dict(DictGet(f, key).v)
                 IN  DictSet(f, key,
                        PyDict(DictSet(d, "attributes",
                            PyDict(_filter_attributes(DictGet(d, "attributes").v)))))
            ELSE f
        filtered_dict == unfiltered_dict
    IN  [arg |-> unfiltered_dict,
         ret |-> Step(Step(filtered_dict, "old_state"), "new_state")]

Events_from_event_filters_every_type(e) ==
    LET call == _filter_state_change_event_data(e.data)
    IN  [event |-> [e EXCEPT !.data = call.arg],
         ret |-> [event_type |-> e.event_type,
                  event_data |-> json_dumps(PyDict(call.ret)),
                  origin |-> e.origin,
                  time_fired |-> Some(e.time_fired),
                  context_id |-> e.context.id,
                  context_user_id |-> e.context.user_id]]
\* event is the caller's event after the call, ret the new row
Events_from_event(e) ==
    LET call == _filter_state_change_event_data(e.data)
        isStateChanged == e.event_type = EVENT_STATE_CHANGED
    IN  [event |-> IF isStateChanged THEN [e EXCEPT !.data = call.arg] ELSE e,
         ret |-> [event_type |-> e.event_type,
                  event_data |-> json_dumps(PyDict(IF isStateChanged THEN call.ret
                                                   ELSE e.data)),
                  origin |-> e.origin,
                  time_fired |-> Some(e.time_fired),
                  context_id |-> e.context.id,
                  context_user_id |-> e.context.user_id]]

\* Event.__init__: data or {}, time_fired or utcnow()
EventInit(event_type, data, origin, time_fired, context, now) ==
    [event_type |-> event_type,
     data |-> IF data.t = "dict" THEN data.v ELSE <<>>,
     origin |-> origin,
     time_fired |-> IF time_fired = None THEN now ELSE time_fired[1],
     context |-> context]
Events_to_native_body(row, now) ==
    LET context == [id |-> row.context_id, user_id |-> row.context_user_id]
        data == json_loads(row.event_data)
        origin == EventOrigin(row.origin)
    IN  IF data.exc # "" THEN [exc |-> data.exc, ret |-> None]
        ELSE IF origin.exc # "" THEN [exc |-> origin.exc, ret |-> None]
        ELSE [exc |-> "",
              ret |-> Some(EventInit(row.event_type, data.ret, origin.ret,
                                     _process_timestamp(row.time_fired), context, now))]
Events_to_native(row, now) ==
    LET r == Events_to_native_body(row, now)
    IN  IF r.exc = "ValueError" THEN [exc |-> "", ret |-> None] ELSE r

-----------------------------------------------------------------------------
(* States codec *)

\* the row of a deleted state (new_state absent or None)
DeletedRow_without_times(e, entity_id) ==
    [entity_id |-> entity_id,
     domain |-> split_entity_id(entity_id)[1],
     state |-> "",
     attributes |-> EmptyObjectText,
     last_changed |-> None,
     last_updated |-> None,
     context_id |-> e.context.id,
     context_user_id |-> e.context.user_id]
DeletedRow(e, entity_id) ==
    [entity_id |-> entity_id,
     domain |-> split_entity_id(entity_id)[1],
     state |-> "",
     attributes |-> EmptyObjectText,
     last_changed |-> Some(e.time_fired),
     last_updated |-> Some(e.time_fired),
     context_id |-> e.context.id,
     context_user_id |-> e.context.user_id]
\* the row of a present state; dict(state.attributes) is a copy
PresentRow_swaps_timestamps(e, entity_id, state) ==
    [entity_id |-> entity_id,
     domain |-> StateDomain(state),
     state |-> state.state,
     attributes |-> json_dumps(PyDict(_filter_attributes(state.attributes))),
     last_changed |-> Some(state.last_updated),
     last_updated |-> Some(state.last_changed),
     context_id |-> e.context.id,
     context_user_id |-> e.context.user_id]
PresentRow(e, entity_id, state) ==
    [entity_id |-> entity_id,
     domain |-> StateDomain(state),
     state |-> state.state,
     attributes |-> json_dumps(PyDict(_filter_attributes(state.attributes))),
     last_changed |-> Some(state.last_changed),
     last_updated |-> Some(state.last_updated),
     context_id |-> e.context.id,
     context_user_id |-> e.context.user_id]
States_from_event(e) ==
    LET entity_id == DictGet(e.data, "entity_id").v
        state == IF DictHas(e.data, "new_state") THEN DictGet(e.data, "new_state")
                 ELSE PyNone
    IN  IF state.t = "NoneType"
        THEN [exc |-> "", ret |-> Some(DeletedRow(e, entity_id))]
        \* a value that is no State has no domain attribute
        ELSE IF state.t # "State" THEN [exc |-> "AttributeError", ret |-> None]
        ELSE [exc |-> "", ret |-> Some(PresentRow(e, entity_id, state.v))]

\* State.__init__ with temp_invalid_id_bypass=True: entity_id.lower(),
\* attributes or {}, last_updated or utcnow(), last_changed or last_updated
StateInit(entity_id, state, attributes, last_changed, last_updated, context, now) ==
    LET lu == IF last_updated = None THEN now ELSE last_updated[1]
    IN  [entity_id |-> Lower(entity_id),
         state |-> state,
         attributes |-> IF attributes.t = "dict" THEN attributes.v ELSE <<>>,
         last_changed |-> IF last_changed = None THEN lu ELSE last_changed[1],
         last_updated |-> lu,
         context |-> context]
States_to_native_body(row, now) ==
    LET context == [id |-> row.context_id, user_id |-> row.context_user_id]
        attributes == json_loads(row.attributes)
    IN  IF attributes.exc # "" THEN [exc |-> attributes.exc, ret |-> None]
        ELSE [exc |-> "",
              ret |-> Some(StateInit(row.entity_id, row.state, attributes.ret,
                                     _process_timestamp(row.last_changed),
                                     _process_timestamp(row.last_updated), context, now))]
States_to_native_no_except(row, now) == States_to_native_body(row, now)
States_to_native(row, now) ==
    LET r == States_to_native_body(row, now)
    IN  IF r.exc = "ValueError" THEN [exc |-> "", ret |-> None] ELSE r

-----------------------------------------------------------------------------
(* One native event handed to Events.from_event and States.from_event, in  *)
(* either order, and the rows read back with to_native.                    *)

EntityIds == {"light.kitchen", "sensor.a.b"}
EventTypes == {EVENT_STATE_CHANGED, "call_service"}
\* origin, time_fired and context of the events fired
Envelopes ==
    {[origin |-> "LOCAL", time_fired |-> Datetime(10, TRUE, 0),
      context |-> [id |-> PyStr("ctx1"), user_id |-> PyNone]],
     [origin |-> "REMOTE", time_fired |-> Datetime(7, TRUE, -2),
      context |-> [id |-> PyStr("ctx2"), user_id |-> PyStr("user1")]]}
\* <<last_changed, last_updated>> of the states fired: a State carries
\* timezone-aware timestamps, in UTC or in another offset
StateTimes ==
    {<<Datetime(10, TRUE, 0), Datetime(10, TRUE, 0)>>,
     <<Datetime(9, TRUE, 0), Datetime(11, TRUE, 1)>>,
     <<Datetime(11, TRUE, 1), Datetime(11, TRUE, 0)>>,
     <<Datetime(6, TRUE, -2), Datetime(6, TRUE, -2)>>}
UtcNow == Datetime(12, TRUE, 0)

ValueOf(k) ==
    CASE k = "rgb_color" -> PyTuple(<<PyInt(255), PyInt(0)>>)
      [] k = "last_triggered" -> PyDatetime(Datetime(10, TRUE, 0))
      [] k = "effect_list" -> PyList(<<PyStr("colorloop")>>)
      [] k = "brightness" -> PyInt(180)
      [] OTHER -> PyStr("x")
Attrs(ks) == [i \in DOMAIN ks |-> <<ks[i], ValueOf(ks[i])>>]
StateAttrs ==
    {<<>>}
        \cup {Attrs(<<k>>) : k \in AttrKeys \cup {"rgb_color", "last_triggered", "effect_list"}}
        \cup {Attrs(<<ATTR_ICON, ATTR_FRIENDLY_NAME>>),
              Attrs(<<"unit_of_measurement", ATTR_DEVICE_CLASS, "brightness">>),
              Attrs(<<ATTR_FRIENDLY_NAME, ATTR_ENTITY_ID, "rgb_color">>),
              Attrs(<<ATTR_HIDDEN, ATTR_EDITABLE, ATTR_AREA_ID, ATTR_ENTITY_PICTURE>>)}
\* State objects carry a lower-case entity_id and a str state
MkState(entity_id, state, attributes, last_changed, last_updated, context) ==
    [entity_id |-> entity_id, state |-> state, attributes |-> attributes,
     last_changed |-> last_changed, last_updated |-> last_updated, context |-> context]
NewStates(eid, ctx) ==
    {MkState(eid, "on", a, lt[1], lt[2], ctx) : a \in StateAttrs, lt \in StateTimes}
OldStates(eid, ctx) ==
    {MkState(eid, "off", a, Datetime(8, TRUE, 0), Datetime(8, TRUE, 0), ctx) :
        a \in {<<>>, Attrs(<<ATTR_ICON, "rgb_color">>)}}
\* a key of the event data is absent (None), or holds None or a State
Slot(states) == {None, Some(PyNone)} \cup {Some(PyState(S)) : S \in states}
EventData(eid, old, new) ==
    <<<<"entity_id", PyStr(eid)>>>>
        \o (IF old = None THEN <<>> ELSE <<<<"old_state", old[1]>>>>)
        \o (IF new = None THEN <<>> ELSE <<<<"new_state", new[1]>>>>)
NativeEvents ==
    UNION {{[event_type |-> ty, data |-> EventData(eid, old, new), origin |-> env.origin,
             time_fired |-> env.time_fired, context |-> env.context] :
                ty \in EventTypes,
                old \in Slot(OldStates(eid, env.context)),
                new \in Slot(NewStates(eid, env.context))} :
           eid \in EntityIds, env \in Envelopes}

CodecIdle ==
    /\ event = None /\ fired = None /\ calls = <<>> /\ ev_row = None /\ st_row = None
    /\ ev_native = None /\ st_native = None
FireEvent ==
    /\ event = None
    /\ \E e \in NativeEvents :
        /\ event' = Some(e)
        /\ fired' = Some(e)
    /\ calls' = <<>>
    /\ ev_row' = None /\ st_row' = None /\ ev_native' = None /\ st_native' = None
    /\ UNCHANGED <<ts_vars, fa_vars, read_vars, run_vars>>
EventsFromEvent ==
    /\ event # None
    /\ ev_row = None
    /\ LET call == Events_from_event(event[1])
       IN  /\ event' = Some(call.event)
           /\ ev_row' = Some(call.ret)
    /\ calls' = Append(calls, "Events.from_event")
    /\ UNCHANGED <<fired, st_row, ev_native, st_native>>
    /\ UNCHANGED <<ts_vars, fa_vars, read_vars, run_vars>>
StatesFromEvent ==
    /\ event # None
    /\ event[1].event_type = EVENT_STATE_CHANGED
    /\ st_row = None
    /\ st_row' = Some(States_from_event(event[1]))
    /\ calls' = Append(calls, "States.from_event")
    /\ UNCHANGED <<event, fired, ev_row, ev_native, st_native>>
    /\ UNCHANGED <<ts_vars, fa_vars, read_vars, run_vars>>
EventsToNative ==
    /\ ev_row # None
    /\ ev_native = None
    /\ ev_native' = Some(Events_to_native(ev_row[1], UtcNow))
    /\ UNCHANGED <<event, fired, calls, ev_row, st_row, st_native>>
    /\ UNCHANGED <<ts_vars, fa_vars, read_vars, run_vars>>
StatesToNative ==
    /\ st_row # None
    /\ st_row[1].exc = ""
    /\ st_native = None
    /\ st_native' = Some(States_to_native(st_row[1].ret[1], UtcNow))
    /\ UNCHANGED <<event, fired, calls, ev_row, st_row, ev_native>>
    /\ UNCHANGED <<ts_vars, fa_vars, read_vars, run_vars>>
\* the event has been recorded and is dropped; the next one can be fired
EventDone ==
    /\ event # None
    /\ ev_row # None
    /\ event[1].event_type = EVENT_STATE_CHANGED => st_row # None
    /\ event' = None /\ fired' = None /\ calls' = <<>>
    /\ ev_row' = None /\ st_row' = None /\ ev_native' = None /\ st_native' = None
    /\ UNCHANGED <<ts_vars, fa_vars, read_vars, run_vars>>
(* Bulk read: the rows of one table are turned into native objects one    *)
(* after the other; an exception that leaves to_native ends the read.      *)

Seqs(S, n) == UNION {[1..k -> S] : k \in 0..n}
EventRows ==
    {[event_type |-> "call_service",
      event_data |-> data,
      origin |-> origin,
      time_fired |-> Some(Datetime(10, FALSE, 0)),
      context_id |-> PyStr("ctx1"),
      context_user_id |-> PyNone] :
        data \in {json_dumps(PyDict(<<<<"service", PyStr("turn_on")>>>>)), Malformed},
        origin \in {"LOCAL", "REMOTE", "BOGUS"}}
StateRows ==
    {[entity_id |-> eid,
      domain |-> "light",
      state |-> "on",
      attributes |-> attributes,
      last_changed |-> Some(Datetime(9, FALSE, 0)),
      last_updated |-> Some(Datetime(10, FALSE, 0)),
      context_id |-> PyStr("ctx1"),
      context_user_id |-> PyNone] :
        eid \in {"light.kitchen", "Light.Kitchen"},
        attributes \in {json_dumps(PyDict(Attrs(<<ATTR_FRIENDLY_NAME>>))), Malformed}}

ReadIdle ==
    /\ ev_table = <<>> /\ st_table = <<>> /\ rd_kind = "" /\ rd_pos = 0
    /\ rd_out = <<>> /\ rd_raised = ""
ReadInit ==
    /\ rd_kind \in {"events", "states"}
    /\ ev_table \in IF rd_kind = "events" THEN Seqs(EventRows, MaxRows) ELSE {<<>>}
    /\ st_table \in IF rd_kind = "states" THEN Seqs(StateRows, MaxRows) ELSE {<<>>}
    /\ rd_pos = 0
    /\ rd_out = <<>>
    /\ rd_raised = ""
ReadEventsRow ==
    /\ rd_kind = "events"
    /\ rd_raised = ""
    /\ rd_pos < Len(ev_table)
    /\ LET r == Events_to_native(ev_table[rd_pos + 1], UtcNow)
       IN  /\ rd_raised' = r.exc
           /\ rd_out' = IF r.exc = "" THEN Append(rd_out, r.ret) ELSE rd_out
    /\ rd_pos' = rd_pos + 1
    /\ UNCHANGED <<ev_table, st_table, rd_kind>>
    /\ UNCHANGED <<ts_vars, fa_vars, codec_vars, run_vars>>
ReadStatesRow ==
    /\ rd_kind = "states"
    /\ rd_raised = ""
    /\ rd_pos < Len(st_table)
    /\ LET r == States_to_native(st_table[rd_pos + 1], UtcNow)
       IN  /\ rd_raised' = r.exc
           /\ rd_out' = IF r.exc = "" THEN Append(rd_out, r.ret) ELSE rd_out
    /\ rd_pos' = rd_pos + 1
    /\ UNCHANGED <<ev_table, st_table, rd_kind>>
    /\ UNCHANGED <<ts_vars, fa_vars, codec_vars, run_vars>>

-----------------------------------------------------------------------------
(* Recorder run and RecorderRuns.entity_ids *)

\* the database compares DateTime(timezone=True) columns by instant
Instant(dt) == dt.wall - dt.off
RECURSIVE Distinct(_)
Distinct(ids) ==
    IF ids = <<>> THEN <<>>
    ELSE LET rest == Distinct(SubSeq(ids, 1, Len(ids) - 1))
             last == ids[Len(ids)]
         IN  IF InSeq(last, rest) THEN rest ELSE Append(rest, last)
\* the rows of a query come in an order the database chooses
Orderings(ids) == {[i \in DOMAIN ids |-> ids[p[i]]] : p \in Permutations(DOMAIN ids)}

RecorderRuns_entity_ids_bounded_by_end_too(self, session, table, point_in_time) ==
    IF ~session THEN [exc |-> "AssertionError", ret |-> {<<>>}]
    ELSE
        LET q1 == SelectSeq(table, LAMBDA row :
                        Instant(row.last_updated[1]) >= Instant(self.start))
            q2 == IF point_in_time # None
                  THEN SelectSeq(q1, LAMBDA row :
                            Instant(row.last_updated[1]) < Instant(point_in_time[1]))
                  ELSE q1
            q3 == IF self.end # None
                  THEN SelectSeq(q2, LAMBDA row :
                            Instant(row.last_updated[1]) < Instant(self.end[1]))
                  ELSE q2
        IN  [exc |-> "",
             ret |-> Orderings(Distinct([i \in DOMAIN q3 |-> q3[i].entity_id]))]
\* ret is the set of lists the call may return
RecorderRuns_entity_ids(self, session, table, point_in_time) ==
    IF ~session THEN [exc |-> "AssertionError", ret |-> {<<>>}]
    ELSE
        LET q1 == SelectSeq(table, LAMBDA row :
                        Instant(row.last_updated[1]) >= Instant(self.start))
            q2 == IF point_in_time # None
                  THEN SelectSeq(q1, LAMBDA row :
                            Instant(row.last_updated[1]) < Instant(point_in_time[1]))
                  ELSE IF self.end # None
                  THEN SelectSeq(q1, LAMBDA row :
                            Instant(row.last_updated[1]) < Instant(self.end[1]))
                  ELSE q1
        IN  [exc |-> "",
             ret |-> Orderings(Distinct([i \in DOMAIN q2 |-> q2[i].entity_id]))]

Times == {Datetime(t, TRUE, 0) : t \in 0..MaxTime}
RunContext == [id |-> PyStr("ctx1"), user_id |-> PyNone]
StateChanged(eid, t) ==
    [event_type |-> EVENT_STATE_CHANGED,
     data |-> EventData(eid, None, Some(PyState(MkState(eid, "on", <<>>, t, t, RunContext)))),
     origin |-> "LOCAL", time_fired |-> t, context |-> RunContext]

RunIdle ==
    /\ states_tbl = <<>> /\ run = None /\ run_session = FALSE /\ q_pit = None
    /\ q_out = <<>> /\ q_exc = "" /\ q_done = FALSE
RunInit ==
    /\ states_tbl = <<>>
    /\ run \in {Some([start |-> t, end |-> None]) : t \in Times}
    /\ run_session = FALSE
    /\ q_pit = None /\ q_out = <<>> /\ q_exc = "" /\ q_done = FALSE
\* the run is added to a session
PersistRun ==
    /\ ~run_session
    /\ run_session' = TRUE
    /\ q_pit' = None /\ q_out' = <<>> /\ q_exc' = "" /\ q_done' = FALSE
    /\ UNCHANGED <<states_tbl, run>>
    /\ UNCHANGED <<ts_vars, fa_vars, codec_vars, read_vars>>
\* a state_changed event is translated and its row stored
RecordState ==
    /\ Len(states_tbl) < MaxStates
    /\ \E eid \in EntityIds, t \in Times :
          states_tbl' = Append(states_tbl, States_from_event(StateChanged(eid, t)).ret[1])
    /\ q_pit' = None /\ q_out' = <<>> /\ q_exc' = "" /\ q_done' = FALSE
    /\ UNCHANGED <<run, run_session>>
    /\ UNCHANGED <<ts_vars, fa_vars, codec_vars, read_vars>>
\* recording stops: the run gets its end
EndRun ==
    /\ run[1].end = None
    /\ \E t \in Times :
          /\ Instant(t) >= Instant(run[1].start)
          /\ run' = Some([run[1] EXCEPT !.end = Some(t)])
    /\ q_pit' = None /\ q_out' = <<>> /\ q_exc' = "" /\ q_done' = FALSE
    /\ UNCHANGED <<states_tbl, run_session>>
    /\ UNCHANGED <<ts_vars, fa_vars, codec_vars, read_vars>>
EntityIdsQuery ==
    /\ \E point_in_time \in {None} \cup {Some(t) : t \in Times} :
          LET call == RecorderRuns_entity_ids(run[1], run_session, states_tbl, point_in_time)
          IN  /\ q_pit' = point_in_time
              /\ q_exc' = call.exc
              /\ q_out' \in call.ret
    /\ q_done' = TRUE
    /\ UNCHANGED <<states_tbl, run, run_session>>
    /\ UNCHANGED <<ts_vars, fa_vars, codec_vars, read_vars>>

Init == CodecIdle /\ TsIdle /\ FaIdle /\ ReadIdle /\ RunIdle
Next ==
    \/ FireEvent
    \/ EventsFromEvent
    \/ StatesFromEvent
    \/ EventsToNative
    \/ StatesToNative
    \/ EventDone
Spec == Init /\ [][Next]_vars

InitRead == ReadInit /\ TsIdle /\ FaIdle /\ CodecIdle /\ RunIdle
NextRead ==
    \/ ReadEventsRow
    \/ ReadStatesRow
SpecRead == InitRead /\ [][NextRead]_vars

InitRun == RunInit /\ TsIdle /\ FaIdle /\ CodecIdle /\ ReadIdle
NextRun ==
    \/ PersistRun
    \/ RecordState
    \/ EndRun
    \/ EntityIdsQuery
SpecRun == InitRun /\ [][NextRun]_vars

InitTs == TsInit /\ FaIdle /\ CodecIdle /\ ReadIdle /\ RunIdle
NextTs == ProcessTimestamp
SpecTs == InitTs /\ [][NextTs]_vars

InitFilter == FaInit /\ TsIdle /\ CodecIdle /\ ReadIdle /\ RunIdle
NextFilter == FilterAttributes
SpecFilter == InitFilter /\ [][NextFilter]_vars

\* a caller either translates events with the two codecs or filters a
\* mapping it holds
InitFrame == Init \/ InitFilter
TranslateStep == fa_in = <<>> /\ fa_calls = 0 /\ Next
FilterStep == event = None /\ FilterAttributes
NextFrame ==
    \/ TranslateStep
    \/ FilterStep
SpecFrame == InitFrame /\ [][NextFrame]_vars

-----------------------------------------------------------------------------
\* C9: _process_timestamp maps None to None and any other timestamp to an
\* aware UTC timestamp of the same instant (a naive one read as UTC), and a
\* second application changes nothing.
AbsInstant(dt) == IF dt.aware THEN dt.wall - dt.off ELSE dt.wall
C9_ProcessTimestampNormalizes ==
    ts_calls >= 1 =>
        /\ ts_in = None => ts_cur = None
        /\ ts_in # None =>
            /\ ts_cur # None
            /\ ts_cur[1].aware
            /\ ts_cur[1].off = 0
            /\ ts_cur[1].wall = AbsInstant(ts_in[1])
        /\ ts_calls >= 2 => ts_cur = ts_prev
C9_Witness ==
    /\ ts_calls = 2
    /\ ts_in # None
    /\ ts_in[1].aware
    /\ ts_in[1].off # 0

\* C7: _filter_attributes removes exactly the seven deny-listed keys, keeps
\* every other key with its value and in the input's order, and is idempotent.
DenyListed ==
    {"entity_id", "area_id", "entity_picture", "hidden", "icon", "device_class",
     "editable"}
PosIn(d, k) == CHOOSE i \in DOMAIN d : d[i][1] = k
C7_FilterRemovesExactlyDenyList ==
    fa_calls >= 1 =>
        /\ Keys(fa_cur) = Keys(fa_in) \ DenyListed
        /\ \A i \in DOMAIN fa_cur : InSeq(fa_cur[i], fa_in)
        /\ \A i, j \in DOMAIN fa_cur :
              i < j => PosIn(fa_in, fa_cur[i][1]) < PosIn(fa_in, fa_cur[j][1])
        /\ fa_calls >= 2 => fa_cur = fa_prev
C7_Witness ==
    /\ fa_calls = 2
    /\ Len(fa_in) = 3
    /\ fa_in[1][1] = "unit_of_measurement"
    /\ fa_in[2][1] = "icon"
    /\ fa_in[3][1] = "friendly_name"

-----------------------------------------------------------------------------
(* Claims about the two codecs, under Spec *)

\* the attributes a record is meant to keep
Durable(attrs) == SelectSeq(attrs, LAMBDA item : item[1] \notin DenyListed)
\* what a Python value comes back as after JSON encoding and decoding
RECURSIVE JsonImage(_)
JsonImage(o) ==
    CASE o.t \in {"str", "int", "NoneType"} -> o
      [] o.t \in {"tuple", "list"} -> PyList([i \in DOMAIN o.v |-> JsonImage(o.v[i])])
      [] o.t = "dict" -> PyDict([i \in DOMAIN o.v |-> <<o.v[i][1], JsonImage(o.v[i][2])>>])
      [] o.t = "datetime" -> PyStr(Isoformat(o.v))
      [] o.t = "State" -> JsonImage(PyDict(State_as_dict(o.v)))
JsonImageOfDict(d) == JsonImage(PyDict(d)).v
HoldsState(e, key) == DictHas(e.data, key) /\ DictGet(e.data, key).t = "State"
IsDeletion(e) == ~DictHas(e.data, "new_state") \/ DictGet(e.data, "new_state").t = "NoneType"
NewState(e) == DictGet(e.data, "new_state").v
RoundTripped ==
    /\ fired # None
    /\ HoldsState(fired[1], "new_state")
    /\ st_native # None

\* C4 as stated: to_native(from_event(e)) reproduces entity_id, state,
\* last_changed, last_updated and attributes equal to
\* _filter_attributes(S.attributes).
C4_RoundTripReproducesState ==
    RoundTripped =>
        LET S == NewState(fired[1])
            n == st_native[1]
        IN  /\ n.exc = ""
            /\ n.ret # None
            /\ n.ret[1].entity_id = S.entity_id
            /\ n.ret[1].state = S.state
            /\ DtEq(n.ret[1].last_changed, S.last_changed)
            /\ DtEq(n.ret[1].last_updated, S.last_updated)
            /\ DictEq(n.ret[1].attributes, _filter_attributes(S.attributes))
\* C4 amended: to_native(from_event(e)) reproduces entity_id and state, gives
\* last_changed and last_updated as UTC timestamps of the same instants, and
\* attributes equal to the JSON image of _filter_attributes(S.attributes):
\* tuples come back as lists and datetimes as ISO strings.
C4_RoundTripUpToJson ==
    RoundTripped =>
        LET S == NewState(fired[1])
            n == st_native[1]
        IN  /\ n.exc = ""
            /\ n.ret # None
            /\ n.ret[1].entity_id = S.entity_id
            /\ n.ret[1].state = S.state
            /\ n.ret[1].last_changed = Datetime(AbsInstant(S.last_changed), TRUE, 0)
            /\ n.ret[1].last_updated = Datetime(AbsInstant(S.last_updated), TRUE, 0)
            /\ DictEq(n.ret[1].attributes, JsonImageOfDict(Durable(S.attributes)))
C4_Witness ==
    /\ RoundTripped
    /\ NewState(fired[1]).attributes = Attrs(<<ATTR_FRIENDLY_NAME, ATTR_ENTITY_ID, "rgb_color">>)
    /\ NewState(fired[1]).last_changed = Datetime(9, TRUE, 0)
    /\ NewState(fired[1]).last_updated = Datetime(11, TRUE, 1)

\* C5: the attributes of every State record produced by States.from_event,
\* once parsed, hold none of the seven deny-listed keys.
C5_NoDenyListedKeyStored ==
    (st_row # None /\ st_row[1].exc = "") =>
        LET parsed == json_loads(st_row[1].ret[1].attributes)
        IN  /\ parsed.exc = ""
            /\ parsed.ret.t = "dict"
            /\ Keys(parsed.ret.v) \cap DenyListed = {}
C5_Witness ==
    /\ st_row # None
    /\ HoldsState(fired[1], "new_state")
    /\ NewState(fired[1]).attributes =
            Attrs(<<ATTR_HIDDEN, ATTR_EDITABLE, ATTR_AREA_ID, ATTR_ENTITY_PICTURE>>)

\* C6: for a state_changed event without new_state (absent or None) fired at
\* T for entity E, the record has state "", the domain before E's first
\* separator, attributes "{}", last_changed = last_updated = T, and the
\* event's context ids.
C6_DeletionRecord ==
    (st_row # None /\ IsDeletion(fired[1])) =>
        LET e == fired[1]
            E == DictGet(e.data, "entity_id").v
        IN  /\ st_row[1].exc = ""
            /\ st_row[1].ret # None
            /\ LET r == st_row[1].ret[1]
               IN  /\ r.entity_id = E
                   /\ r.state = ""
                   /\ r.domain \in {"light", "sensor"}
                   /\ \E rest \in {"kitchen", "a.b"} : r.domain \o "." \o rest = E
                   /\ r.attributes = EmptyObjectText
                   /\ r.last_changed = Some(e.time_fired)
                   /\ r.last_updated = Some(e.time_fired)
                   /\ r.context_id = e.context.id
                   /\ r.context_user_id = e.context.user_id
C6_Witness ==
    /\ st_row # None
    /\ ~DictHas(fired[1].data, "new_state")
    /\ DictGet(fired[1].data, "entity_id").v = "sensor.a.b"
    /\ fired[1].context.user_id = PyStr("user1")

\* C8: the parsed event_data of a state_changed event holds, for old_state
\* and new_state that are State objects, the state's dict form with its
\* attributes filtered, and every other field as it was; for any other event
\* type it holds the event data as it was (all as JSON carries them).
EmbeddedForm(S) == DictSet(State_as_dict(S), "attributes", PyDict(Durable(S.attributes)))
C8_EventPayload ==
    ev_row # None =>
        LET e == fired[1]
            parsed == json_loads(ev_row[1].event_data)
        IN  /\ parsed.exc = ""
            /\ parsed.ret.t = "dict"
            /\ Keys(parsed.ret.v) = Keys(e.data)
            /\ \A i \in DOMAIN e.data :
                  LET k == e.data[i][1]
                      x == e.data[i][2]
                      got == DictGet(parsed.ret.v, k)
                  IN  IF /\ e.event_type = "state_changed"
                         /\ k \in {"old_state", "new_state"}
                         /\ x.t = "State"
                      THEN /\ got = JsonImage(PyDict(EmbeddedForm(x.v)))
                           /\ Keys(DictGet(got.v, "attributes").v) \cap DenyListed = {}
                      ELSE got = JsonImage(x)
C8_Witness ==
    /\ ev_row # None
    /\ fired[1].event_type = "state_changed"
    /\ HoldsState(fired[1], "old_state")
    /\ DictHas(DictGet(fired[1].data, "old_state").v.attributes, ATTR_ICON)
    /\ HoldsState(fired[1], "new_state")
    /\ NewState(fired[1]).attributes = Attrs(<<ATTR_ICON, ATTR_FRIENDLY_NAME>>)

\* C10: _filter_attributes leaves the mapping it is given as it was, and
\* Events.from_event and States.from_event leave the event as it was fired,
\* embedded states and their unfiltered attributes included, so the State
\* record is the one States.from_event gives for the event as fired,
\* whichever of the two calls ran first.
C10_InputsNotMutated ==
    /\ fa_calls >= 1 => fa_arg = fa_in
    /\ event # None => event = fired
    /\ st_row # None => st_row[1] = States_from_event(fired[1])
C10_Witness ==
    /\ calls = <<"Events.from_event", "States.from_event">>
    /\ HoldsState(fired[1], "new_state")
    /\ NewState(fired[1]).attributes = Attrs(<<ATTR_ICON, ATTR_FRIENDLY_NAME>>)
    /\ HoldsState(fired[1], "old_state")

-----------------------------------------------------------------------------
(* Claims about reading rows back, under SpecRead *)

ValidOrigins == {"LOCAL", "REMOTE"}
\* C2: Events.to_native on a row with well-formed event_data and an origin
\* that is no member of the enumeration raises to the caller and returns
\* nothing.
C2_InvalidOriginPropagates ==
    rd_kind = "events" =>
        \A i \in 1..rd_pos :
            (ev_table[i].event_data.wf /\ ev_table[i].origin \notin ValidOrigins) =>
                /\ rd_raised # ""
                /\ Len(rd_out) < i

-----------------------------------------------------------------------------
(* Claims about the run window, under SpecRun *)

\* C1: for a persisted run, entity_ids(point_in_time) returns exactly the
\* distinct entity_ids of the rows with last_updated >= run.start and below
\* point_in_time when it is given (run.end is then ignored), else below
\* run.end when it is set, else unbounded; no entity_id comes twice.
InWindow(row) ==
    /\ AbsInstant(row.last_updated[1]) >= AbsInstant(run[1].start)
    /\ IF q_pit # None THEN AbsInstant(row.last_updated[1]) < AbsInstant(q_pit[1])
       ELSE IF run[1].end # None
       THEN AbsInstant(row.last_updated[1]) < AbsInstant(run[1].end[1])
       ELSE TRUE
C1_EntityIdsWindow ==
    (q_done /\ run_session) =>
        /\ q_exc = ""
        /\ {q_out[i] : i \in DOMAIN q_out} =
              {states_tbl[i].entity_id : i \in {j \in DOMAIN states_tbl : InWindow(states_tbl[j])}}
        /\ \A i, j \in DOMAIN q_out : q_out[i] = q_out[j] => i = j
C1_Witness ==
    /\ q_done
    /\ run_session
    /\ run[1].end # None
    /\ q_pit # None
    /\ AbsInstant(q_pit[1]) > AbsInstant(run[1].end[1])
    /\ Len(states_tbl) = 2
    /\ states_tbl[1].entity_id = states_tbl[2].entity_id
    /\ InWindow(states_tbl[1])
    /\ InWindow(states_tbl[2])
    /\ AbsInstant(states_tbl[2].last_updated[1]) >= AbsInstant(run[1].end[1])
    /\ Len(q_out) = 1
====
